---- MODULE Spec2Model ----
(***************************************************************************)
(* Model of the override proxy (src/main.go): the two gin handlers        *)
(* ProxyService.completions and ProxyService.codeCompletions, the JSON     *)
(* rewriting they do with gjson/sjson, the upstream dispatch and the      *)
(* relay of the upstream response.                                         *)
(*                                                                         *)
(* Strings are sequences of tokens (a token stands for a run of           *)
(* characters), so that concatenation is \o and strings.Contains is a     *)
(* search for a token.  Request bodies are JSON objects.                   *)
(***************************************************************************)
EXTENDS Integers, Sequences, FiniteSets, TLC

\* ------------------------------------------------------------------ bounds
MaxMessages == 2    \* longest messages array of an inbound document
MaxTok      == 3    \* largest integer max_tokens of an inbound document
MaxCeiling  == 2    \* largest configured chat_max_tokens
MaxResubmit == 1    \* how often a rewritten document is submitted again
MaxBody     == 2    \* longest upstream response body

\* ------------------------------------------------------- program constants
InstructModel == <<"deepseek-coder">>
PhraseTok     == "Respond in the following locale"
DefaultLocale == <<"zh_CN">>
EventStream   == <<"text/event-stream">>
DoneSentinel  == <<"data: [DONE]\n">>

StatusOK                  == 200
StatusBadRequest          == 400
StatusRequestTimeout      == 408
StatusInternalServerError == 500

\* ------------------------------------------------------------ JSON values
\* A gjson.Result: a missing value, a string, or a number n (+ 1/2 if half).
JAbsent      == [t |-> "absent", s |-> <<>>, n |-> 0, half |-> FALSE]
JNull        == [t |-> "null",   s |-> <<>>, n |-> 0, half |-> FALSE]
JStr(s)      == [t |-> "str",    s |-> s,    n |-> 0, half |-> FALSE]
JNum(n, h)   == [t |-> "num",    s |-> <<>>, n |-> n, half |-> h]

\* gjson Result.Exists
GExists(v) == v.t # "absent"

\* gjson Result.String: "" for a missing value or null, the text of a string,
\* the decimal text of a number.
GString(v) ==
    CASE v.t = "str" -> v.s
      [] v.t = "num" -> << ToString(v.n) \o (IF v.half THEN ".5" ELSE "") >>
      [] OTHER       -> <<>>

\* gjson Result.Int: 0 for a missing value or null, the number truncated
\* towards zero; the strings of the model are not numerals, so they give 0.
GInt(v) ==
    CASE v.t = "num" -> v.n
      [] OTHER       -> 0

\* strings.Contains(s, "Respond in the following locale")
Contains(s) == \E i \in 1..Len(s) : s[i] = PhraseTok

\* ------------------------------------------------------------- documents
\* The request document.  Fields that the handlers only test for presence
\* or delete are presence flags.
JMissing     == [t |-> "absent", a |-> <<>>]
JArr(a)      == [t |-> "arr",    a |-> a]

\* gjson Result.Array: the elements of an array, none for a missing value
GArray(m) == IF m.t = "arr" THEN m.a ELSE <<>>

EmptyDoc ==
    [model |-> JAbsent, function_call |-> FALSE, messages |-> JMissing,
     intent |-> FALSE, intent_threshold |-> FALSE, intent_content |-> FALSE,
     max_tokens |-> JAbsent, extra |-> FALSE, nwo |-> FALSE]

\* ---------------------------------------------------------- configuration
EmptyMap == [k \in {} |-> <<>>]
ModelMaps == { EmptyMap, (<<"gpt-4">> :> <<"deepseek-reasoner">>) }
GoodBase == "https://api.deepseek.com/v1"
BadBase  == ":bad"
Bases    == { GoodBase, BadBase }

Configs(bases) ==
    [ChatModelMap     : ModelMaps,
     ChatModelDefault : { <<"deepseek-chat">> },
     ChatLocale       : { <<>>, <<"en_US">> },
     ChatMaxTokens    : 1..MaxCeiling,
     ChatApiBase      : bases,
     CodexApiBase     : bases]

\* ------------------------------------------------------- inbound documents
ModelValues == { JAbsent, JNull, JStr(<<>>), JStr(<<"gpt-4">>), JStr(<<"gpt-3.5-turbo">>) }
Contents    == { JAbsent, JStr(<<"hi">>), JStr(<<PhraseTok, "hi">>) }
Messages    == [content : Contents]
RECURSIVE SeqsUpTo(_, _)
SeqsUpTo(S, n) ==
    IF n = 0 THEN { <<>> }
    ELSE LET shorter == SeqsUpTo(S, n - 1)
         IN  shorter \cup { Append(q, x) : q \in { r \in shorter : Len(r) = n - 1 }, x \in S }
MaxTokensValues ==
    { JAbsent } \cup { JNum(n, FALSE) : n \in 1..MaxTok }
                \cup { JNum(n, TRUE)  : n \in 1..(MaxTok - 1) }

ChatDocs ==
    [model : ModelValues, function_call : BOOLEAN,
     messages : { JMissing } \cup { JArr(a) : a \in SeqsUpTo(Messages, MaxMessages) },
     intent : BOOLEAN, intent_threshold : BOOLEAN, intent_content : BOOLEAN,
     max_tokens : MaxTokensValues, extra : {FALSE}, nwo : {FALSE}]

CodexDocs ==
    [model : ModelValues, function_call : {FALSE}, messages : { JMissing },
     intent : {FALSE}, intent_threshold : {FALSE}, intent_content : {FALSE},
     max_tokens : { JAbsent }, extra : BOOLEAN, nwo : BOOLEAN]

\* ---------------------------------------------------- the chat rewriting
\* variant: a model that is not mapped is passed on as the caller sent it
MapModelKeepsUnmapped(c, b) ==
    LET model == GString(b.model)
    IN  IF model \in DOMAIN c.ChatModelMap
        THEN [b EXCEPT !.model = JStr(c.ChatModelMap[model])]
        ELSE b

\* lines 189-197: the model (as a string) is looked up in chat_model_map
MapModel(c, b) ==
    LET model == GString(b.model)
        mapped == IF model \in DOMAIN c.ChatModelMap
                  THEN c.ChatModelMap[model]
                  ELSE c.ChatModelDefault
    IN  [b EXCEPT !.model = JStr(mapped)]

\* line 203: messages[lastIndex] with lastIndex = len(messages) - 1 is out of
\* range when there is no message
IndexPanics(b) == ~b.function_call /\ Len(GArray(b.messages)) - 1 < 0

LocaleSuffix(c) ==
    LET locale == IF c.ChatLocale = <<>> THEN DefaultLocale ELSE c.ChatLocale
    IN  <<PhraseTok, ": ">> \o locale \o <<".">>

\* variant: the suffix is appended without looking for the phrase
InjectLocaleAlways(c, b) ==
    IF b.function_call THEN b
    ELSE LET messages  == GArray(b.messages)
             lastIndex == Len(messages) - 1
             content   == GString(messages[lastIndex + 1].content)
         IN  [b EXCEPT !.messages.a[lastIndex + 1].content =
                           JStr(content \o LocaleSuffix(c))]

\* lines 200-210, for a document on which line 203 does not panic
InjectLocale(c, b) ==
    IF b.function_call THEN b
    ELSE LET messages  == GArray(b.messages)
             lastIndex == Len(messages) - 1
             content   == GString(messages[lastIndex + 1].content)
         IN  IF ~Contains(content)
             THEN [b EXCEPT !.messages.a[lastIndex + 1].content =
                                JStr(content \o LocaleSuffix(c))]
             ELSE b

\* variant: intent_content is not deleted
DeleteIntentKeepsContent(b) ==
    [b EXCEPT !.intent = FALSE, !.intent_threshold = FALSE]

\* lines 212-214
DeleteIntent(b) ==
    [b EXCEPT !.intent = FALSE, !.intent_threshold = FALSE,
              !.intent_content = FALSE]

\* lines 216-218
ClampMaxTokens(c, b) ==
    IF GInt(b.max_tokens) > c.ChatMaxTokens
    THEN [b EXCEPT !.max_tokens = JNum(c.ChatMaxTokens, FALSE)]
    ELSE b

\* --------------------------------------------------- the codex rewriting
\* variant: a model the caller supplied is kept
CodexRewriteKeepsModel(b) ==
    [b EXCEPT !.extra = FALSE, !.nwo = FALSE,
              !.model = IF GExists(@) THEN @ ELSE JStr(InstructModel)]

\* lines 289-292
CodexRewrite(b) ==
    [b EXCEPT !.extra = FALSE, !.nwo = FALSE, !.model = JStr(InstructModel)]

\* ------------------------------------------------------------------ state
VARIABLES
    cfg,           \* s.cfg, read once at startup
    endpoint,      \* the route of the request: "chat" or "codex"
    inbound,       \* the document in c.Request.Body
    pc,            \* the position of the handler
    body,          \* the handler's local body
    ctxCancelled,  \* ctx.Err() != nil: the caller went away
    calls,         \* how often s.client.Do was called
    outbound,      \* the document handed to s.client.Do
    resp,          \* the upstream response returned by s.client.Do
    respBody,      \* resp.Body: where it reads from and what is left to read
    deferred,      \* the closer bound by "defer closeIO(resp.Body)"
    closed,        \* how often the upstream's body was closed
    out,           \* the response to the caller (c.Writer, c.Abort)
    log,           \* what log.Println wrote
    outcome,       \* which exit the handler took
    passes         \* how often the document was submitted again

vars == << cfg, endpoint, inbound, pc, body, ctxCancelled, calls, outbound,
           resp, respBody, deferred, closed, out, log, outcome, passes >>

NoResp     == [status |-> 0, contentType |-> <<>>, body |-> <<>>]
NoRespBody == [src |-> "none", data |-> <<>>]
\* gin answers 200 with no body when a handler writes nothing
NewOut     == [status |-> StatusOK, contentType |-> <<>>, body |-> <<>>,
               aborted |-> FALSE]

UpstreamStatuses == { 200, 204, 503 }
Bodies == { [i \in 1..n |-> ToString(i)] : n \in 0..MaxBody }
\* what s.client.Do can return; a 204 answer carries no body
UpstreamResponses ==
    { r \in [status : UpstreamStatuses,
             contentType : { <<>>, <<"application/json">> },
             body : Bodies] : r.status = 204 => r.body = <<>> }

\* ------------------------------------------------------------ gin helpers
\* http.NewRequestWithContext fails when the URL does not parse
UrlParses(url) == url # BadBase

\* gin's Context.Render writes no body for 1xx, 204 and 304
BodyAllowedForStatus(status) ==
    ~(status >= 100 /\ status <= 199) /\ status # 204 /\ status # 304

\* c.AbortWithStatus(code)
AbortWithStatus(o, code) == [o EXCEPT !.status = code, !.aborted = TRUE]

\* variant: the sentinel always goes out with status 500
abortCodexFixedStatus(o, status) ==
    [o EXCEPT !.contentType = EventStream,
              !.status = StatusInternalServerError,
              !.body = @ \o DoneSentinel,
              !.aborted = TRUE]

\* lines 134-141
abortCodex(o, status) ==
    [o EXCEPT !.contentType = EventStream,
              !.status = status,
              !.body = IF BodyAllowedForStatus(status) THEN @ \o DoneSentinel ELSE @,
              !.aborted = TRUE]

\* variant: no error is recognised as a cancellation
IsCanceledNever(err) == FALSE

\* errors.Is(err, context.Canceled)
IsCanceled(err) == err = "context canceled"

\* the errors s.client.Do returns: the context's error once the caller is
\* gone, a transport failure otherwise
DoErrors == IF ctxCancelled THEN { "context canceled" } ELSE { "connection refused" }

\* io.ReadAll / io.Copy of rb with the error dropped: everything that is left,
\* or any prefix of it once the context of the upstream request is cancelled
Prefixes(q) == { SubSeq(q, 1, k) : k \in 0..Len(q) }
ReadAll(rb) ==
    IF rb.src = "upstream" /\ ctxCancelled THEN Prefixes(rb.data) ELSE { rb.data }

\* variant: resp.Body is left as io.ReadAll drained it
RebufferMissing(rb, read) == [rb EXCEPT !.data = <<>>]

\* line 256: resp.Body = io.NopCloser(bytes.NewBuffer(body))
Rebuffer(rb, read) == [src |-> "buffer", data |-> read]

\* variant: the closer is resp.Body as it is when the handler returns
DeferredCloserLate(atDefer, atReturn) == atReturn.src

\* "defer closeIO(resp.Body)" evaluates resp.Body when the defer statement
\* runs, not when the handler returns
DeferredCloser(atDefer, atReturn) == atDefer.src

\* closeIO(c) at return: counts a Close of the upstream's body
RunDeferred(d) == IF d = "upstream" THEN closed + 1 ELSE closed

\* -------------------------------------------------------------- the caller
\* the caller disconnects: the request's context is cancelled
ClientCancel ==
    /\ pc # "done"
    /\ ~ctxCancelled
    /\ ctxCancelled' = TRUE
    /\ UNCHANGED << cfg, endpoint, inbound, pc, body, calls, outbound, resp,
                    respBody, deferred, closed, out, log, outcome, passes >>

\* ---------------------------------------------- completions, lines 179-268
ChatRead ==
    /\ endpoint = "chat" /\ pc = "read"
    /\ \E ok \in BOOLEAN :
         IF ok
         THEN /\ body' = inbound
              /\ pc' = "map_model"
              /\ UNCHANGED << out, outcome >>
         ELSE /\ out' = AbortWithStatus(out, StatusBadRequest)
              /\ outcome' = "read_error"
              /\ pc' = "done"
              /\ UNCHANGED body
    /\ UNCHANGED << cfg, endpoint, inbound, ctxCancelled, calls, outbound, resp,
                    respBody, deferred, closed, log, passes >>

ChatMapModel ==
    /\ endpoint = "chat" /\ pc = "map_model"
    /\ body' = MapModel(cfg, body)
    /\ pc' = "inject"
    /\ UNCHANGED << cfg, endpoint, inbound, ctxCancelled, calls, outbound, resp,
                    respBody, deferred, closed, out, log, outcome, passes >>

\* an index out of range panics; gin.Default()'s Recovery answers 500
ChatInjectLocale ==
    /\ endpoint = "chat" /\ pc = "inject"
    /\ IF IndexPanics(body)
       THEN /\ out' = AbortWithStatus(out, StatusInternalServerError)
            /\ outcome' = "panic"
            /\ pc' = "done"
            /\ UNCHANGED body
       ELSE /\ body' = InjectLocale(cfg, body)
            /\ pc' = "strip"
            /\ UNCHANGED << out, outcome >>
    /\ UNCHANGED << cfg, endpoint, inbound, ctxCancelled, calls, outbound, resp,
                    respBody, deferred, closed, log, passes >>

ChatStripClamp ==
    /\ endpoint = "chat" /\ pc = "strip"
    /\ body' = ClampMaxTokens(cfg, DeleteIntent(body))
    /\ pc' = "build"
    /\ UNCHANGED << cfg, endpoint, inbound, ctxCancelled, calls, outbound, resp,
                    respBody, deferred, closed, out, log, outcome, passes >>

ChatBuild ==
    /\ endpoint = "chat" /\ pc = "build"
    /\ IF UrlParses(cfg.ChatApiBase)
       THEN /\ pc' = "do"
            /\ UNCHANGED << out, outcome >>
       ELSE /\ out' = AbortWithStatus(out, StatusInternalServerError)
            /\ outcome' = "build_error"
            /\ pc' = "done"
    /\ UNCHANGED << cfg, endpoint, inbound, body, ctxCancelled, calls, outbound,
                    resp, respBody, deferred, closed, log, passes >>

ChatDo ==
    /\ endpoint = "chat" /\ pc = "do"
    /\ calls' = calls + 1
    /\ outbound' = body
    /\ pc' = "inflight"
    /\ UNCHANGED << cfg, endpoint, inbound, body, ctxCancelled, resp, respBody,
                    deferred, closed, out, log, outcome, passes >>

ChatDoError ==
    /\ endpoint = "chat" /\ pc = "inflight"
    /\ \E err \in DoErrors :
         IF IsCanceled(err)
         THEN /\ out' = AbortWithStatus(out, StatusRequestTimeout)
              /\ outcome' = "do_cancelled"
              /\ UNCHANGED log
         ELSE /\ log' = Append(log, [msg |-> "request conversation failed:", arg |-> <<err>>])
              /\ out' = AbortWithStatus(out, StatusInternalServerError)
              /\ outcome' = "do_error"
    /\ pc' = "done"
    /\ UNCHANGED << cfg, endpoint, inbound, body, ctxCancelled, calls, outbound,
                    resp, respBody, deferred, closed, passes >>

ChatDoResponse ==
    /\ endpoint = "chat" /\ pc = "inflight"
    /\ ~ctxCancelled
    /\ \E r \in UpstreamResponses :
         /\ resp' = r
         /\ respBody' = [src |-> "upstream", data |-> r.body]
    /\ pc' = "status"
    /\ UNCHANGED << cfg, endpoint, inbound, body, ctxCancelled, calls, outbound,
                    deferred, closed, out, log, outcome, passes >>

\* lines 250-257: the defer, and the logging of a failed request
ChatStatus ==
    /\ endpoint = "chat" /\ pc = "status"
    /\ IF resp.status # StatusOK
       THEN \E read \in ReadAll(respBody) :
              /\ log' = Append(log, [msg |-> "request completions failed:", arg |-> read])
              /\ respBody' = Rebuffer(respBody, read)
              /\ deferred' = DeferredCloser(respBody, respBody')
       ELSE /\ deferred' = DeferredCloser(respBody, respBody)
            /\ UNCHANGED << log, respBody >>
    /\ pc' = "relay"
    /\ UNCHANGED << cfg, endpoint, inbound, body, ctxCancelled, calls, outbound,
                    resp, closed, out, outcome, passes >>

\* lines 259-268, and the deferred close at return
ChatRelay ==
    /\ endpoint = "chat" /\ pc = "relay"
    /\ \E copied \in ReadAll(respBody) :
         /\ out' = [out EXCEPT !.status = resp.status,
                               !.contentType = IF resp.contentType # <<>>
                                               THEN resp.contentType ELSE @,
                               !.body = @ \o copied]
         /\ respBody' = [respBody EXCEPT !.data = <<>>]
    /\ closed' = RunDeferred(deferred)
    /\ outcome' = "relayed"
    /\ pc' = "done"
    /\ UNCHANGED << cfg, endpoint, inbound, body, ctxCancelled, calls, outbound,
                    resp, deferred, log, passes >>

\* ------------------------------------------ codeCompletions, lines 271-343
\* lines 274-280: the delay, then the check of the context
CodexDelay ==
    /\ endpoint = "codex" /\ pc = "delay"
    /\ IF ctxCancelled
       THEN /\ out' = abortCodex(out, StatusRequestTimeout)
            /\ outcome' = "cancelled_early"
            /\ pc' = "done"
       ELSE /\ pc' = "read"
            /\ UNCHANGED << out, outcome >>
    /\ UNCHANGED << cfg, endpoint, inbound, body, ctxCancelled, calls,
                    outbound, resp, respBody, deferred, closed, log, passes >>

CodexRead ==
    /\ endpoint = "codex" /\ pc = "read"
    /\ \E ok \in BOOLEAN :
         IF ok
         THEN /\ body' = inbound
              /\ pc' = "rewrite"
              /\ UNCHANGED << out, outcome >>
         ELSE /\ out' = abortCodex(out, StatusBadRequest)
              /\ outcome' = "read_error"
              /\ pc' = "done"
              /\ UNCHANGED body
    /\ UNCHANGED << cfg, endpoint, inbound, ctxCancelled, calls, outbound,
                    resp, respBody, deferred, closed, log, passes >>

CodexRewriteStep ==
    /\ endpoint = "codex" /\ pc = "rewrite"
    /\ body' = CodexRewrite(body)
    /\ pc' = "build"
    /\ UNCHANGED << cfg, endpoint, inbound, ctxCancelled, calls, outbound,
                    resp, respBody, deferred, closed, out, log, outcome,
                    passes >>

CodexBuild ==
    /\ endpoint = "codex" /\ pc = "build"
    /\ IF UrlParses(cfg.CodexApiBase)
       THEN /\ pc' = "do"
            /\ UNCHANGED << out, outcome >>
       ELSE /\ out' = abortCodex(out, StatusInternalServerError)
            /\ outcome' = "build_error"
            /\ pc' = "done"
    /\ UNCHANGED << cfg, endpoint, inbound, body, ctxCancelled, calls,
                    outbound, resp, respBody, deferred, closed, log, passes >>

CodexDo ==
    /\ endpoint = "codex" /\ pc = "do"
    /\ calls' = calls + 1
    /\ outbound' = body
    /\ pc' = "inflight"
    /\ UNCHANGED << cfg, endpoint, inbound, body, ctxCancelled, resp,
                    respBody, deferred, closed, out, log, outcome, passes >>

CodexDoError ==
    /\ endpoint = "codex" /\ pc = "inflight"
    /\ \E err \in DoErrors :
         IF IsCanceled(err)
         THEN /\ out' = abortCodex(out, StatusRequestTimeout)
              /\ outcome' = "do_cancelled"
              /\ UNCHANGED log
         ELSE /\ log' = Append(log, [msg |-> "request completions failed:", arg |-> <<err>>])
              /\ out' = abortCodex(out, StatusInternalServerError)
              /\ outcome' = "do_error"
    /\ pc' = "done"
    /\ UNCHANGED << cfg, endpoint, inbound, body, ctxCancelled, calls,
                    outbound, resp, respBody, deferred, closed, passes >>

CodexDoResponse ==
    /\ endpoint = "codex" /\ pc = "inflight"
    /\ ~ctxCancelled
    /\ \E r \in UpstreamResponses :
         /\ resp' = r
         /\ respBody' = [src |-> "upstream", data |-> r.body]
    /\ pc' = "status"
    /\ UNCHANGED << cfg, endpoint, inbound, body, ctxCancelled, calls,
                    outbound, deferred, closed, out, log, outcome, passes >>

\* lines 324-332: the defer, and the early return on a failed request
CodexStatus ==
    /\ endpoint = "codex" /\ pc = "status"
    /\ IF resp.status # StatusOK
       THEN \E read \in ReadAll(respBody) :
              /\ log' = Append(log, [msg |-> "request completions failed:", arg |-> read])
              /\ respBody' = [respBody EXCEPT !.data = <<>>]
              /\ out' = abortCodex(out, resp.status)
              /\ deferred' = DeferredCloser(respBody, respBody')
              /\ closed' = RunDeferred(deferred')
              /\ outcome' = "non200"
              /\ pc' = "done"
       ELSE /\ deferred' = DeferredCloser(respBody, respBody)
            /\ pc' = "relay"
            /\ UNCHANGED << log, respBody, out, closed, outcome >>
    /\ UNCHANGED << cfg, endpoint, inbound, body, ctxCancelled, calls,
                    outbound, resp, passes >>

\* lines 334-343, and the deferred close at return
CodexRelay ==
    /\ endpoint = "codex" /\ pc = "relay"
    /\ \E copied \in ReadAll(respBody) :
         /\ out' = [out EXCEPT !.status = resp.status,
                               !.contentType = IF resp.contentType # <<>>
                                               THEN resp.contentType ELSE @,
                               !.body = @ \o copied]
         /\ respBody' = [respBody EXCEPT !.data = <<>>]
    /\ closed' = RunDeferred(deferred)
    /\ outcome' = "relayed"
    /\ pc' = "done"
    /\ UNCHANGED << cfg, endpoint, inbound, body, ctxCancelled, calls,
                    outbound, resp, deferred, log, passes >>

\* a new request carries the document the rewriting produced
Resubmit ==
    /\ pc = "build"
    /\ passes < MaxResubmit
    /\ passes' = passes + 1
    /\ inbound' = body
    /\ pc' = IF endpoint = "chat" THEN "map_model" ELSE "rewrite"
    /\ UNCHANGED << cfg, endpoint, body, ctxCancelled, calls, outbound, resp,
                    respBody, deferred, closed, out, log, outcome >>

\* ---------------------------------------------------------- specifications
\* the documents of the handler specification: at most one message,
\* max_tokens absent or the largest, the model absent or a mapped one
SampleDocs ==
    { d \in ChatDocs : /\ d.max_tokens \in { JAbsent, JNum(MaxTok, FALSE) }
                       /\ d.model \in { JAbsent, JStr(<<"gpt-4">>) }
                       /\ Len(d.messages.a) <= 1
                       /\ \A i \in 1..Len(d.messages.a) : GExists(d.messages.a[i].content) }
    \cup CodexDocs

Fresh ==
    /\ ctxCancelled = FALSE
    /\ calls = 0
    /\ outbound = EmptyDoc
    /\ resp = NoResp
    /\ respBody = NoRespBody
    /\ deferred = "none"
    /\ closed = 0
    /\ out = NewOut
    /\ log = <<>>
    /\ outcome = "none"
    /\ passes = 0

\* a request arrives at one of the two routes (lines 172-176)
Init ==
    /\ cfg \in Configs(Bases)
    /\ endpoint \in { "chat", "codex" }
    /\ inbound \in IF endpoint = "chat" THEN SampleDocs \cap ChatDocs ELSE SampleDocs \cap CodexDocs
    /\ pc = IF endpoint = "chat" THEN "read" ELSE "delay"
    /\ body = EmptyDoc
    /\ Fresh

Next ==
    \/ ClientCancel
    \/ ChatRead \/ ChatMapModel \/ ChatInjectLocale \/ ChatStripClamp
    \/ ChatBuild \/ ChatDo \/ ChatDoError \/ ChatDoResponse
    \/ ChatStatus \/ ChatRelay
    \/ CodexDelay \/ CodexRead \/ CodexRewriteStep
    \/ CodexBuild \/ CodexDo \/ CodexDoError \/ CodexDoResponse
    \/ CodexStatus \/ CodexRelay

Spec == Init /\ [][Next]_vars

\* the rewriting alone, on every document, after the body was read
InitRewrite ==
    /\ cfg \in Configs({ GoodBase })
    /\ endpoint \in { "chat", "codex" }
    /\ inbound \in IF endpoint = "chat" THEN ChatDocs ELSE CodexDocs
    /\ pc = IF endpoint = "chat" THEN "map_model" ELSE "rewrite"
    /\ body = inbound
    /\ Fresh

NextRewrite ==
    \/ ChatMapModel \/ ChatInjectLocale \/ ChatStripClamp
    \/ CodexRewriteStep
    \/ Resubmit

SpecRewrite == InitRewrite /\ [][NextRewrite]_vars

\* ------------------------------------------------------------ properties
\* v > c as numbers, for a number value v = n (+ 1/2)
NumGreater(v, c) == v.t = "num" /\ (v.n > c \/ (v.n = c /\ v.half))

\* how often the phrase occurs in s
RECURSIVE PhraseCount(_)
PhraseCount(s) ==
    IF s = <<>> THEN 0
    ELSE (IF Head(s) = PhraseTok THEN 1 ELSE 0) + PhraseCount(Tail(s))

LastContent(d) == GString(GArray(d.messages)[Len(GArray(d.messages))].content)
ModelMapped   == pc \in { "inject", "strip", "build" } \/ outcome = "panic"
LocaleDone    == pc \in { "strip", "build" }
CodexFailures == { "cancelled_early", "read_error", "build_error",
                   "do_cancelled", "do_error", "non200" }

LocaleInjectionIdempotent ==
    (endpoint = "chat" /\ LocaleDone) =>
        /\ ~inbound.function_call =>
             LastContent(body) =
               IF Contains(LastContent(inbound)) THEN LastContent(inbound)
               ELSE LastContent(inbound) \o <<PhraseTok, ": ">>
                      \o (IF cfg.ChatLocale = <<>> THEN <<"zh_CN">> ELSE cfg.ChatLocale)
                      \o <<".">>
        /\ passes >= 1 =>
             /\ body.messages = inbound.messages
             /\ ~inbound.function_call => PhraseCount(LastContent(body)) = 1

LocaleInjectionWitness ==
    /\ endpoint = "chat" /\ pc = "build" /\ passes = 1
    /\ ~body.function_call
    /\ LastContent(body) = <<"hi">> \o LocaleSuffix(cfg)

\* C3: the rewritten chat document's max_tokens is never greater than the
\* ceiling, and the field is as it was inbound when it was absent or at or
\* below the ceiling.
MaxTokensClamped ==
    (endpoint = "chat" /\ pc = "build") =>
        /\ ~NumGreater(body.max_tokens, cfg.ChatMaxTokens)
        /\ (~NumGreater(inbound.max_tokens, cfg.ChatMaxTokens)
              => body.max_tokens = inbound.max_tokens)

\* C4: a chat document handed to the upstream has none of intent,
\* intent_threshold and intent_content.
IntentFieldsAbsent ==
    (endpoint = "chat" /\ calls >= 1) =>
        /\ ~outbound.intent
        /\ ~outbound.intent_threshold
        /\ ~outbound.intent_content

IntentFieldsWitness ==
    /\ endpoint = "chat" /\ calls = 1
    /\ inbound.intent /\ inbound.intent_threshold /\ inbound.intent_content
    /\ inbound.function_call
    /\ inbound.max_tokens # outbound.max_tokens

\* C5: a codex document handed to the upstream has neither extra nor nwo and
\* its model is "deepseek-coder", whatever model the caller sent.
CodexDocumentFixed ==
    (endpoint = "codex" /\ calls >= 1) =>
        /\ ~outbound.extra
        /\ ~outbound.nwo
        /\ outbound.model = JStr(<<"deepseek-coder">>)

CodexDocumentWitness ==
    /\ endpoint = "codex" /\ calls = 1
    /\ inbound.extra /\ inbound.nwo
    /\ inbound.model = JStr(<<"gpt-4">>)

\* C6: when the upstream answered a chat request, the handler ends by
\* relaying; a caller that is still connected gets the upstream's status, its
\* content type when it has one and its body unchanged, and for a status
\* other than 200 the same body was logged.
ChatRelayVerbatim ==
    (endpoint = "chat" /\ pc = "done" /\ resp # NoResp) =>
        /\ outcome = "relayed"
        /\ ~out.aborted
        /\ ~ctxCancelled =>
             /\ out.status = resp.status
             /\ (resp.contentType # <<>> => out.contentType = resp.contentType)
             /\ out.body = resp.body
             /\ (resp.status # 200 =>
                   log = << [msg |-> "request completions failed:", arg |-> resp.body] >>)
             /\ (resp.status = 200 => log = <<>>)

ChatRelayWitness ==
    /\ endpoint = "chat" /\ pc = "done" /\ ~ctxCancelled
    /\ resp.status = 503 /\ Len(resp.body) = MaxBody
    /\ resp.contentType # <<>>
    /\ out.body = resp.body

\* C7 as claimed: every failure of the codex handler answers with
\* text/event-stream, the body "data: [DONE]\n" and an aborted context, with
\* status 408, 400, 500, 408, 500 or the upstream's status.
CodexFailureStatus ==
    CASE outcome = "cancelled_early" -> 408
      [] outcome = "read_error"      -> 400
      [] outcome = "build_error"     -> 500
      [] outcome = "do_cancelled"    -> 408
      [] outcome = "do_error"        -> 500
      [] OTHER                       -> resp.status

DispatchErrorClassified ==
    /\ calls <= 1
    /\ (pc = "done" /\ calls = 1 /\ resp = NoResp) =>
         /\ outcome = IF ctxCancelled THEN "do_cancelled" ELSE "do_error"
         /\ out.status = IF ctxCancelled THEN 408 ELSE 500
         /\ out.aborted
         /\ out.contentType = IF endpoint = "codex" THEN <<"text/event-stream">> ELSE <<>>
         /\ out.body = IF endpoint = "codex" THEN <<"data: [DONE]\n">> ELSE <<>>
    /\ (pc = "done" /\ outcome = "cancelled_early") =>
         /\ calls = 0
         /\ out.status = 408
         /\ out.body = <<"data: [DONE]\n">>

DispatchErrorWitness ==
    /\ endpoint = "codex" /\ pc = "done" /\ outcome = "do_cancelled"
    /\ calls = 1 /\ out.status = 408

\* C9: the upstream's body is never closed twice, and when the handler has
\* returned it was closed once if s.client.Do returned a response and not at
\* all if it returned an error or was not called.
UpstreamBodyClosedOnce ==
    /\ closed <= 1
    /\ pc = "done" => closed = IF resp # NoResp THEN 1 ELSE 0

UpstreamBodyClosedWitness ==
    /\ endpoint = "chat" /\ pc = "done"
    /\ resp.status = 503 /\ respBody.src = "buffer"
    /\ closed = 1

\* C10: a chat request whose body was read does not panic while it is
\* rewritten: it ends after a call of s.client.Do or with the 500 of a
\* request that could not be built.
ChatRewriteCompletes ==
    (endpoint = "chat" /\ pc = "done" /\ outcome # "read_error") =>
        /\ outcome # "panic"
        /\ calls = 1 \/ outcome = "build_error"

====
